---- MODULE Spec2Model ----
(***************************************************************************)
(* SnapClaw backend: the streak engine (_update_streak in                  *)
(* backend/routers/snaps.py) and the expiration sweeper (run_cleanup in    *)
(* backend/cleanup.py), together with the handlers that create the rows    *)
(* they work on (post_snap, post_snap_file, create_story, send_message).   *)
(*                                                                         *)
(* Time is counted in minutes.  Bot identifiers are integers; their order  *)
(* stands for the order Python's sorted() puts on the identifier strings.  *)
(* The bot_profiles table (usernames, snap_score, auto-reply settings) is  *)
(* fixed: bots 1 and 2 exist, username 3 has no profile, auto-reply is     *)
(* off, nobody is blocked.  Calls on that table are modelled only as       *)
(* places where the store may raise.                                       *)
(*                                                                         *)
(* In the specifications of one worker process every handler is one       *)
(* atomic action.                                                          *)
(* Spec draws direct sends between the two bots, with every store call of  *)
(* a send or of a sweep run allowed to raise; SpecContent draws public and *)
(* direct snaps, stories and messages, with failures in the sweeper only.  *)
(* SpecSolo has one bot sending alone, to itself and to the other bot;     *)
(* SpecTTL draws expires_in_hours from both sides of the validated range;  *)
(* SpecLifespan follows the server process from startup to shutdown.       *)
(* SpecOrder, SpecRead and SpecSweep follow the sweeper over content of    *)
(* all three kinds, read messages and repeated runs.  SpecRace, SpecWorkers *)
(* and SpecView have several worker processes, whose requests and sweep    *)
(* runs are followed store call by store call.                             *)
(***************************************************************************)
EXTENDS Integers, FiniteSets, Sequences, TLC

VARIABLES now, snaps, storage, stories, messages, streaks, last, proc,
          workers

vars ==
  <<now, snaps, storage, stories, messages, streaks, last, proc, workers>>

----------------------------------------------------------------------------
(* Bounds *)

MaxSnaps == 1        \* snap identifiers (rows and storage objects) alive at once
MaxCount == 3        \* no send advances a streak beyond this count
MaxStories == 1      \* story rows alive at once
MaxMessages == 1     \* message rows alive at once

(* Program constants *)

MinutesPerHour == 60
RiskHours == 20
BreakHours == 48
Null == 0

Bots == {1, 2}
Usernames == {1, 2, 3}

\* Instants (in hours) at which the clock is observed.  Their differences
\* cover both sides of each threshold: 20 and 21 hours, 48 and 49 hours.
HourPoints == {0, 1, 21, 49}
TimePoints == {h * MinutesPerHour : h \in HourPoints}

\* expires_in_hours values tried by callers (all within the validated range).
TTLs == {1}

\* expires_in_hours: int = Field(default=24, ge=1, le=168)
TTLMin == 1
TTLMax == 168
ValidTTL(hours) == TTLMin <= hours /\ hours <= TTLMax

\* expires_in_hours values on both sides of each end of the range
AnyTTLs == {TTLMin - 1, TTLMin, TTLMax, TTLMax + 1}

\* Column defaults of the database schema.
AtRiskDefault == FALSE
DefaultStoryHours == 24

----------------------------------------------------------------------------
(* The server process: its lifespan phase, how the sweep run at startup  *)
(* ended, whether the periodic sweep job is scheduled, and whether the job *)
(* has fired (0: not since startup; 1 and 2 alternate at every firing).    *)

Serving == [phase |-> "serving", startup |-> "ok", job |-> TRUE, runs |-> 0]
Starting == [phase |-> "starting", startup |-> "none", job |-> FALSE, runs |-> 0]

(* The worker processes uvicorn runs, numbered from 1.  Each has the      *)
(* request its event loop is executing (the handlers are coroutines that   *)
(* make blocking store calls, so a worker executes one request at a time)  *)
(* and the sweep run its lifespan or its scheduler thread is executing.    *)
(* call.found holds the rows the request has read and not yet acted on;    *)
(* sweep.broken the selected streak ids the run has still to reset.        *)

NoCall == [op |-> "none", bot |-> 0, other |-> 0, found |-> {}]
NoSweep == [phase |-> "serving", broken |-> {}]
IdleWorker == [call |-> NoCall, sweep |-> NoSweep]

\* settings.workers is 1 unless configured otherwise
OneWorker == [w \in {1} |-> IdleWorker]

(* The record of the last handler call (a history variable). *)

NoLast ==
  [op |-> "none", sender |-> 0, recipient |-> 0, snap_id |-> 0,
   status |-> "none", faults |-> {}, streak |-> "none", branch |-> "none",
   steps |-> <<>>, failed |-> "none", purge |-> "none", deleted |-> 0,
   marked |-> {}, reset |-> {}, second |-> FALSE, before |-> {}]

----------------------------------------------------------------------------
(* Streak engine: _update_streak *)

\* Faulty variant of CanonicalPair: the pair in call order, not sorted.
CanonicalPairUnsorted(bot_a, bot_b) == <<bot_a, bot_b>>

\* a, b = sorted([bot_a, bot_b])
CanonicalPair(bot_a, bot_b) ==
  IF bot_a <= bot_b THEN <<bot_a, bot_b>> ELSE <<bot_b, bot_a>>

\* select * from streaks where bot_a_id = a and bot_b_id = b
Lookup(S, a, b) == {r \in S : r.bot_a_id = a /\ r.bot_b_id = b}

\* res.data[0]
First(rows) == CHOOSE r \in rows : \A q \in rows : r.id <= q.id

\* Faulty variant of NewStreak: the sent flag goes to the low bot, whoever sent.
NewStreakLowSent(S, a, b, bot_a, t) ==
  [id |-> Cardinality(S) + 1, bot_a_id |-> a, bot_b_id |-> b,
   count |-> 1, last_snap_at |-> t,
   bot_a_sent |-> TRUE, bot_b_sent |-> FALSE,
   at_risk |-> AtRiskDefault]

\* the row inserted on first contact
NewStreak(S, a, b, bot_a, t) ==
  [id |-> Cardinality(S) + 1, bot_a_id |-> a, bot_b_id |-> b,
   count |-> 1, last_snap_at |-> t,
   bot_a_sent |-> (bot_a = a), bot_b_sent |-> (bot_a = b),
   at_risk |-> AtRiskDefault]

\* Faulty variant of Broken: hours_since >= 48.
BrokenInclusive(t, lastSnap) == t - lastSnap >= BreakHours * MinutesPerHour

\* hours_since > 48
Broken(t, lastSnap) == t - lastSnap > BreakHours * MinutesPerHour

\* Faulty variant of ResetUpdates: only the sender's flag is written.
ResetUpdatesKeepOther(a, b, bot_a, t) ==
  [count |-> 1, last_snap_at |-> t, at_risk |-> FALSE] @@
  (IF bot_a = a THEN [bot_a_sent |-> TRUE] ELSE [bot_b_sent |-> TRUE])

\* the update written when the streak is broken
ResetUpdates(a, b, bot_a, t) ==
  [count |-> 1, last_snap_at |-> t,
   bot_a_sent |-> (bot_a = a), bot_b_sent |-> (bot_a = b),
   at_risk |-> FALSE]

\* Faulty variant of BothSent: the sender's own flag counts as well.
BothSentEither(streak, a, b, bot_a) ==
  streak.bot_a_sent \/ streak.bot_b_sent

\* Faulty variant of BothSent: the other side's flag is never seen.
BothSentNever(streak, a, b, bot_a) == FALSE

BothSent(streak, a, b, bot_a) ==
  \/ (bot_a = a /\ streak.bot_b_sent)
  \/ (bot_a = b /\ streak.bot_a_sent)

\* Faulty variant of LiveUpdates: the advance does not clear the sent flags.
LiveUpdatesNoClear(streak, a, b, bot_a, t) ==
  LET base == [last_snap_at |-> t, at_risk |-> FALSE]
      flag == IF bot_a = a THEN [bot_a_sent |-> TRUE] ELSE [bot_b_sent |-> TRUE]
  IN  IF (bot_a = a /\ streak.bot_b_sent) \/ (bot_a = b /\ streak.bot_a_sent)
        THEN [count |-> streak.count + 1] @@ flag @@ base
        ELSE flag @@ base

\* Faulty variant of LiveUpdates: the update leaves at_risk as it is.
LiveUpdatesKeepRisk(streak, a, b, bot_a, t) ==
  LET base == [last_snap_at |-> t]
      flag == IF bot_a = a THEN [bot_a_sent |-> TRUE] ELSE [bot_b_sent |-> TRUE]
  IN  IF (bot_a = a /\ streak.bot_b_sent) \/ (bot_a = b /\ streak.bot_a_sent)
        THEN [count |-> streak.count + 1, bot_a_sent |-> FALSE,
              bot_b_sent |-> FALSE] @@ base
        ELSE flag @@ base

\* the update written when the streak is alive
LiveUpdates(streak, a, b, bot_a, t) ==
  LET base == [last_snap_at |-> t, at_risk |-> FALSE]
      flag == IF bot_a = a THEN [bot_a_sent |-> TRUE] ELSE [bot_b_sent |-> TRUE]
  IN  IF BothSent(streak, a, b, bot_a)
        THEN [count |-> streak.count + 1, bot_a_sent |-> FALSE,
              bot_b_sent |-> FALSE] @@ base
        ELSE flag @@ base

\* db.table("streaks").update(upd).eq("id", id)
UpdateById(S, id, upd) ==
  {IF r.id = id
     THEN [f \in DOMAIN r |-> IF f \in DOMAIN upd THEN upd[f] ELSE r[f]]
     ELSE r : r \in S}

\* _update_streak(db, bot_a, bot_b) at time t; F is the set of store calls
\* that raise.  The result is the table, the branch taken and whether the
\* call raised.
UpdateStreak(S, bot_a, bot_b, t, F) ==
  LET p == CanonicalPair(bot_a, bot_b)
      a == p[1]
      b == p[2]
      found == Lookup(S, a, b)
  IN  IF "streak_select" \in F
        THEN [table |-> S, branch |-> "none", raised |-> TRUE]
      ELSE IF found = {}
        THEN IF "streak_write" \in F
               THEN [table |-> S, branch |-> "insert", raised |-> TRUE]
               ELSE [table |-> S \cup {NewStreak(S, a, b, bot_a, t)},
                     branch |-> "insert", raised |-> FALSE]
      ELSE LET streak == First(found)
               broken == Broken(t, streak.last_snap_at)
               upd == IF broken THEN ResetUpdates(a, b, bot_a, t)
                                ELSE LiveUpdates(streak, a, b, bot_a, t)
               br == IF broken THEN "reset"
                     ELSE IF BothSent(streak, a, b, bot_a) THEN "advance"
                     ELSE "update"
           IN  IF "streak_write" \in F
                 THEN [table |-> S, branch |-> br, raised |-> TRUE]
                 ELSE [table |-> UpdateById(S, streak.id, upd),
                       branch |-> br, raised |-> FALSE]

----------------------------------------------------------------------------
Init ==
  /\ now = 0
  /\ snaps = {}
  /\ storage = {}
  /\ stories = {}
  /\ messages = {}
  /\ streaks = {}
  /\ last = NoLast
  /\ proc = Serving
  /\ workers = OneWorker

\* the wall clock moves on
Tick ==
  /\ \E t \in TimePoints : t > now /\ now' = t
  /\ last' = [NoLast EXCEPT !.op = "tick"]
  /\ UNCHANGED <<snaps, storage, stories, messages, streaks, proc,
                 workers>>

----------------------------------------------------------------------------
(* Sending snaps: post_snap and post_snap_file *)

\* The store calls of a send that may raise, in program order.  A failure of
\* _update_streak is caught by the handler, so one more call may fail after it.
SendFaultSets ==
  {{}} \cup {{p} : p \in {"upload", "recipient_lookup", "insert", "score",
                          "streak_select", "streak_write", "enrich"}}
       \cup {{p, "enrich"} : p \in {"streak_select", "streak_write"}}

\* Faulty variant of SendStatus: no try/except around _update_streak.
SendStatusPropagating(streakRaised, enrichFails) ==
  IF streakRaised \/ enrichFails THEN "500" ELSE "201"

\* what the handler answers once the row is inserted and the streak update
\* (if any) has been attempted inside its try/except
SendStatus(streakRaised, enrichFails) ==
  IF enrichFails THEN "500" ELSE "201"

\* Row identifiers and storage paths are fresh UUIDs; the model hands out the
\* smallest identifier no live row or object carries, 0 when none is left.
FreeId(used, max) ==
  IF (\A i \in 1..max : i \in used) THEN 0
  ELSE CHOOSE i \in 1..max : i \notin used /\ \A j \in 1..(i - 1) : j \in used

SnapRow(id, bot, recipient_id, image_url, ttl, t) ==
  [id |-> id, sender_id |-> bot, recipient_id |-> recipient_id,
   image_url |-> image_url, expires_at |-> t + ttl * MinutesPerHour]

\* op is "post_snap" (JSON body, validated as a PostSnapRequest before the
\* handler runs; the image is uploaded when it comes as base64 and stored
\* as-is when it comes as a URL) or "post_snap_file" (multipart form fields,
\* expires_in_hours a plain int; always uploaded).  image_url 0 stands for an external URL,
\* p > 0 for the public URL of storage object p.
SendSnap(op, bot, rcpt, upload, ttl, F) ==
  LET id == FreeId({r.id : r \in snaps} \cup storage, MaxSnaps)
      path == id
      aborted(st, sto, sn) ==
        /\ storage' = sto
        /\ snaps' = sn
        /\ streaks' = streaks
        /\ last' = [NoLast EXCEPT !.op = op, !.sender = bot, !.recipient = rcpt,
                                  !.snap_id = IF sn # snaps THEN id ELSE 0,
                                  !.status = st, !.faults = F,
                                  !.before = streaks]
      sto1 == IF upload THEN storage \cup {path} ELSE storage
      row == SnapRow(id, bot, rcpt, IF upload THEN path ELSE 0, ttl, now)
      sn1 == snaps \cup {row}
      us == IF rcpt # Null
              THEN UpdateStreak(streaks, bot, rcpt, now, F)
              ELSE [table |-> streaks, branch |-> "none", raised |-> FALSE]
  IN
  /\ id # 0
  /\ \A r \in us.table : r.count <= MaxCount
  /\ "upload" \in F => upload
  /\ "recipient_lookup" \in F => rcpt # Null
  /\ "score" \in F => op = "post_snap"
  /\ (F \cap {"streak_select", "streak_write"}) # {} => rcpt \in Bots
  /\ IF op = "post_snap" /\ ~ValidTTL(ttl) THEN aborted("422", storage, snaps)
     ELSE IF "upload" \in F THEN aborted("500", storage, snaps)
     ELSE IF "recipient_lookup" \in F THEN aborted("500", sto1, snaps)
     ELSE IF rcpt # Null /\ rcpt \notin Bots THEN aborted("404", sto1, snaps)
     ELSE IF "insert" \in F THEN aborted("500", sto1, snaps)
     ELSE IF "score" \in F THEN aborted("500", sto1, sn1)
     ELSE /\ storage' = sto1
          /\ snaps' = sn1
          /\ streaks' = us.table
          /\ last' = [NoLast EXCEPT
                        !.op = op, !.sender = bot, !.recipient = rcpt,
                        !.snap_id = id,
                        !.status = SendStatus(us.raised, "enrich" \in F),
                        !.faults = F,
                        !.streak = IF rcpt = Null THEN "none"
                                   ELSE IF us.raised THEN "raised" ELSE "ok",
                        !.branch = us.branch,
                        !.before = streaks]
  /\ UNCHANGED <<now, stories, messages, proc,
                 workers>>

PostSnap ==
  \E bot \in Bots, rcpt \in Bots, ttl \in TTLs, F \in SendFaultSets :
    /\ rcpt # bot
    /\ SendSnap("post_snap", bot, rcpt, FALSE, ttl, F)

PostSnapFile ==
  \E bot \in Bots, rcpt \in Bots, ttl \in TTLs, F \in SendFaultSets :
    /\ rcpt # bot
    /\ SendSnap("post_snap_file", bot, rcpt, TRUE, ttl, F)

----------------------------------------------------------------------------
(* Other expiring content: create_story and send_message *)

CreateStory ==
  \E bot \in Bots, ids \in SUBSET {r.id : r \in snaps} :
    /\ Cardinality(stories) < MaxStories
    /\ ids # {}
    /\ \A r \in snaps : r.id \in ids => r.sender_id = bot
    /\ stories' = stories \cup
         {[id |-> FreeId({r.id : r \in stories}, MaxStories),
           bot_id |-> bot, snap_ids |-> ids,
           expires_at |-> now + DefaultStoryHours * MinutesPerHour]}
    /\ last' = [NoLast EXCEPT !.op = "create_story", !.sender = bot,
                              !.status = "201"]
    /\ UNCHANGED <<now, snaps, storage, messages, streaks, proc,
                 workers>>

\* read_at of a message nobody has read (null)
Unread == -1

\* a message expires 20 minutes after it is read
ReadMinutes == 20

\* send_message with a body validated as a SendMessageRequest
SendMsg(bot, rcpt, ttl) ==
  LET id == FreeId({r.id : r \in messages}, MaxMessages)
  IN  /\ id # 0
      /\ IF ~ValidTTL(ttl)
           THEN /\ messages' = messages
                /\ last' = [NoLast EXCEPT !.op = "send_message", !.sender = bot,
                                          !.recipient = rcpt, !.status = "422"]
           ELSE /\ messages' = messages \cup
                     {[id |-> id, sender_id |-> bot, recipient_id |-> rcpt,
                       read_at |-> Unread,
                       expires_at |-> now + ttl * MinutesPerHour]}
                /\ last' = [NoLast EXCEPT !.op = "send_message", !.sender = bot,
                                          !.recipient = rcpt, !.snap_id = id,
                                          !.status = "201"]
      /\ UNCHANGED <<now, snaps, storage, stories, streaks, proc,
                 workers>>

SendMessage ==
  \E bot \in Bots, rcpt \in Bots, ttl \in TTLs :
    /\ Cardinality(messages) < MaxMessages
    /\ SendMsg(bot, rcpt, ttl)

----------------------------------------------------------------------------
(* Reading messages: mark_read and inbox *)

\* Faulty variant of ReadExpiry: always 20 minutes after the read.
ReadExpiryLater(t, current_expires) == t + ReadMinutes

\* new_expires = min(read_expires, current_expires)
ReadExpiry(t, current_expires) ==
  IF t + ReadMinutes < current_expires THEN t + ReadMinutes ELSE current_expires

\* the row after a read at time t: written only when read_at is not set
ReadRow(r, t) ==
  IF r.read_at = Unread
    THEN [r EXCEPT !.read_at = t, !.expires_at = ReadExpiry(t, r.expires_at)]
    ELSE r

MarkRead ==
  \E bot \in Bots, r \in messages :
    /\ IF r.recipient_id # bot
         THEN /\ messages' = messages
              /\ last' = [NoLast EXCEPT !.op = "mark_read", !.sender = bot,
                                        !.status = "403"]
         ELSE /\ messages' = (messages \ {r}) \cup {ReadRow(r, now)}
              /\ last' = [NoLast EXCEPT !.op = "mark_read", !.sender = bot,
                                        !.snap_id = r.id, !.status = "200"]
    /\ UNCHANGED <<now, snaps, storage, stories, streaks, proc,
                 workers>>

\* the recipient lists its unexpired messages; every unread one is marked
Inbox ==
  \E bot \in Bots :
    /\ messages' = {IF r.recipient_id = bot /\ r.expires_at > now
                      THEN ReadRow(r, now) ELSE r : r \in messages}
    /\ last' = [NoLast EXCEPT !.op = "inbox", !.sender = bot, !.status = "200"]
    /\ UNCHANGED <<now, snaps, storage, stories, streaks, proc,
                 workers>>

----------------------------------------------------------------------------
(* delete_snap *)

\* _delete_storage_file: remove the object when the URL carries the storage
\* marker; a failure of the remove call is swallowed
DeleteStorageFile(store, image_url, fails) ==
  IF image_url = 0 \/ fails THEN store ELSE store \ {image_url}

DeleteSnap ==
  \E bot \in Bots, row \in snaps, removeFails \in BOOLEAN :
    /\ removeFails => row.image_url # 0
    /\ IF row.sender_id # bot
         THEN /\ last' = [NoLast EXCEPT !.op = "delete_snap", !.sender = bot,
                                        !.status = "403"]
              /\ UNCHANGED <<snaps, storage>>
         ELSE /\ storage' = DeleteStorageFile(storage, row.image_url, removeFails)
              /\ snaps' = snaps \ {row}
              /\ last' = [NoLast EXCEPT !.op = "delete_snap", !.sender = bot,
                                        !.snap_id = row.id, !.status = "204"]
    /\ UNCHANGED <<now, stories, messages, streaks, proc,
                 workers>>

----------------------------------------------------------------------------
(* Expiration sweeper: run_cleanup *)

\* Faulty variant of ExpiredRows: the comparison is turned round.
ExpiredRowsInverted(T, t) == {r \in T : r.expires_at > t}

\* select id, image_url from snaps where expires_at < now
ExpiredRows(T, t) == {r \in T : r.expires_at < t}

\* _purge_storage_files: the paths of the URLs that carry the storage marker;
\* a failure of the remove call is logged and swallowed
PurgePaths(rows) == {r.image_url : r \in {x \in rows : x.image_url # 0}}

PurgeStorageFiles(store, rows, fails) ==
  IF PurgePaths(rows) = {} \/ fails THEN store ELSE store \ PurgePaths(rows)

\* Faulty variant of PurgeRaises: no try/except around the remove call.
PurgeRaisesUncaught(fails) == fails

\* whether a failure of the remove call leaves _purge_storage_files as an
\* exception (it is caught and logged there)
PurgeRaises(fails) == FALSE

\* Faulty variant of AtRiskSelected: last_snap_at <= now - 20h.
AtRiskSelectedInclusive(r, t) ==
  r.last_snap_at <= t - RiskHours * MinutesPerHour /\ r.at_risk = FALSE

\* update streaks set at_risk = true
\*   where last_snap_at < now - 20h and at_risk = false
AtRiskSelected(r, t) ==
  r.last_snap_at < t - RiskHours * MinutesPerHour /\ r.at_risk = FALSE

MarkAtRisk(S, t) ==
  {IF AtRiskSelected(r, t) THEN [r EXCEPT !.at_risk = TRUE] ELSE r : r \in S}

\* Faulty variant of BrokenSelected: last_snap_at <= now - 48h.
BrokenSelectedInclusive(r, t) == r.last_snap_at <= t - BreakHours * MinutesPerHour

\* select id from streaks where last_snap_at < now - 48h
BrokenSelected(r, t) == r.last_snap_at < t - BreakHours * MinutesPerHour

\* Faulty variant of SweepResetUpdates: the count restarts from 0.
SweepResetUpdatesZero ==
  [count |-> 0, bot_a_sent |-> FALSE, bot_b_sent |-> FALSE, at_risk |-> FALSE]

\* the update written to every broken streak
SweepResetUpdates ==
  [count |-> 1, bot_a_sent |-> FALSE, bot_b_sent |-> FALSE, at_risk |-> FALSE]

ResetRows(S, ids) ==
  {IF r.id \in ids
     THEN [f \in DOMAIN r |-> IF f \in DOMAIN SweepResetUpdates
                                THEN SweepResetUpdates[f] ELSE r[f]]
     ELSE r : r \in S}

\* The store calls of a run that abort it when they raise, in program order.
CleanupFaults ==
  {"none", "snaps_select", "snaps_delete", "stories_delete",
   "messages_delete", "at_risk_update", "broken_select", "reset_update"}

\* Faulty variant of FaultRank: the story delete comes before the snap delete.
FaultRankStoriesFirst(f) ==
  CASE f = "snaps_select" -> 1
    [] f = "stories_delete" -> 2
    [] f = "snaps_delete" -> 3
    [] f = "messages_delete" -> 4
    [] f = "at_risk_update" -> 5
    [] f = "broken_select" -> 6
    [] f = "reset_update" -> 7
    [] OTHER -> 8

FaultRank(f) ==
  CASE f = "snaps_select" -> 1
    [] f = "snaps_delete" -> 2
    [] f = "stories_delete" -> 3
    [] f = "messages_delete" -> 4
    [] f = "at_risk_update" -> 5
    [] f = "broken_select" -> 6
    [] f = "reset_update" -> 7
    [] OTHER -> 8

\* the sub-steps a run completes when its call f raises
StepsDone(f) ==
  LET k == FaultRank(f)
  IN  (IF k > 2 THEN <<"snaps">> ELSE <<>>) \o
      (IF k > 3 THEN <<"stories">> ELSE <<>>) \o
      (IF k > 4 THEN <<"messages">> ELSE <<>>) \o
      (IF k > 5 THEN <<"at_risk">> ELSE <<>>) \o
      (IF k > 7 THEN <<"reset">> ELSE <<>>)

\* One run of run_cleanup at the current instant.  purgeFails: the storage
\* remove call raises (caught inside _purge_storage_files); f: the store call
\* that raises and ends the run; done: the broken streaks already reset when
\* the per-row update raises.
Cleanup(purgeFails, f, done) ==
  LET raised == PurgeRaises(purgeFails)
      k == IF raised THEN FaultRank("snaps_delete") ELSE FaultRank(f)
      expired == ExpiredRows(snaps, now)
      purged == k > 1 /\ expired # {}
      sto2 == IF purged THEN PurgeStorageFiles(storage, expired, purgeFails)
              ELSE storage
      sn2 == IF k > 2 THEN snaps \ expired ELSE snaps
      st2 == IF k > 3 THEN stories \ ExpiredRows(stories, now) ELSE stories
      ms2 == IF k > 4 THEN messages \ ExpiredRows(messages, now) ELSE messages
      marked == IF k > 5 THEN {r.id : r \in {x \in streaks : AtRiskSelected(x, now)}}
                ELSE {}
      sk1 == IF k > 5 THEN MarkAtRisk(streaks, now) ELSE streaks
      broken == IF k > 6 THEN {r.id : r \in {x \in sk1 : BrokenSelected(x, now)}}
                ELSE {}
      reset == IF k = 7 THEN done ELSE broken
  IN
  /\ purgeFails => (k > 1 /\ PurgePaths(expired) # {})
  /\ f = "snaps_delete" => expired # {}
  /\ f = "reset_update" => (LET b == {r.id : r \in {x \in MarkAtRisk(streaks, now) :
                                                     BrokenSelected(x, now)}}
                            IN  done \subseteq b /\ done # b)
  /\ f # "reset_update" => done = {}
  /\ storage' = sto2
  /\ snaps' = sn2
  /\ stories' = st2
  /\ messages' = ms2
  /\ streaks' = ResetRows(sk1, reset)
  /\ last' = [NoLast EXCEPT
                !.op = "run_cleanup",
                !.steps = IF raised THEN <<>> ELSE StepsDone(f),
                !.failed = IF raised THEN "storage_remove" ELSE f,
                !.purge = IF purged /\ PurgePaths(expired) # {}
                            THEN (IF purgeFails THEN "failed" ELSE "ok")
                            ELSE "none",
                !.deleted = Cardinality(snaps \ sn2) + Cardinality(stories \ st2)
                            + Cardinality(messages \ ms2),
                !.marked = marked,
                !.reset = reset,
                !.second = (last.op = "run_cleanup" /\ last.failed = "none"),
                !.before = streaks]
  /\ UNCHANGED now

RunCleanup ==
  \E purgeFails \in BOOLEAN, f \in CleanupFaults,
     done \in SUBSET {r.id : r \in streaks} :
       /\ Cleanup(purgeFails, f, done)
       /\ UNCHANGED <<proc, workers>>

----------------------------------------------------------------------------
(* Vocabulary of the properties *)

IsSend == last.op \in {"post_snap", "post_snap_file"}

\* the send reached _update_streak and the call returned normally
StreakUpdated == IsSend /\ last.streak = "ok"

\* the streak rows of the unordered pair {x, y}
PairRows(S, x, y) == {r \in S : {r.bot_a_id, r.bot_b_id} = {x, y}}

\* the pair's row before the last call, and the same row after it
Pre == CHOOSE r \in PairRows(last.before, last.sender, last.recipient) : TRUE
Post == CHOOSE r \in streaks : r.id = Pre.id
HadRecord == PairRows(last.before, last.sender, last.recipient) # {}

\* the sent flag of bot x in row r
FlagOf(r, x) == IF r.bot_a_id = x THEN r.bot_a_sent ELSE r.bot_b_sent

\* minutes between last_snap_at of row r and the current instant
Age(r) == now - r.last_snap_at

Swept == last.op = "run_cleanup"
Did(step) == \E i \in 1..Len(last.steps) : last.steps[i] = step

----------------------------------------------------------------------------
(* C1: after any sequence of sends between two bots, in either direction,  *)
(* the streak table holds at most one row for the unordered pair, and the  *)
(* row is keyed by the sorted pair (low, high).                            *)
C1_OneRecordPerPair ==
  /\ \A r \in streaks : r.bot_a_id <= r.bot_b_id
  /\ \A r1, r2 \in streaks :
       {r1.bot_a_id, r1.bot_b_id} = {r2.bot_a_id, r2.bot_b_id} => r1 = r2

\* the high bot's send found and advanced the row the low bot's send made
C1_Witness ==
  /\ StreakUpdated /\ last.sender > last.recipient
  /\ last.branch = "advance"
  /\ Cardinality(PairRows(streaks, last.sender, last.recipient)) = 1

(* C2: mutual advance.  When the pair has a row, the other party's sent    *)
(* flag is true and the send happens at most 48 hours after last_snap_at,  *)
(* the send raises count by exactly 1, clears both sent flags, sets        *)
(* last_snap_at to now and at_risk to false.                               *)
C2_MutualAdvance ==
  (/\ StreakUpdated /\ HadRecord
   /\ FlagOf(Pre, last.recipient)
   /\ Age(Pre) <= BreakHours * MinutesPerHour)
  => /\ Post.count = Pre.count + 1
     /\ ~Post.bot_a_sent /\ ~Post.bot_b_sent
     /\ Post.last_snap_at = now
     /\ ~Post.at_risk

C2_Witness ==
  /\ StreakUpdated /\ HadRecord
  /\ FlagOf(Pre, last.recipient)
  /\ Age(Pre) <= BreakHours * MinutesPerHour
  /\ Pre.count >= 2 /\ Pre.at_risk

(* C3: a one-sided repeat does not advance.  From a row where only the     *)
(* sender's flag is true, a further send by the same bot within 48 hours   *)
(* leaves count unchanged, the sender's flag true and the other flag       *)
(* false; the resulting row meets the precondition again, so this holds    *)
(* for any number of repeats.                                              *)
C3_OneSidedRepeat ==
  (/\ StreakUpdated /\ HadRecord
   /\ FlagOf(Pre, last.sender) /\ ~FlagOf(Pre, last.recipient)
   /\ Age(Pre) <= BreakHours * MinutesPerHour)
  => /\ Post.count = Pre.count
     /\ FlagOf(Post, last.sender) /\ ~FlagOf(Post, last.recipient)

C3_Witness ==
  /\ StreakUpdated /\ HadRecord
  /\ FlagOf(Pre, last.sender) /\ ~FlagOf(Pre, last.recipient)
  /\ Age(Pre) <= BreakHours * MinutesPerHour
  /\ Pre.count >= 2 /\ last.sender > last.recipient

(* C4: first contact.  When the pair has no row, the send creates one with *)
(* count 1, last_snap_at = now, the sender's flag true, the recipient's    *)
(* flag false and at_risk false.                                           *)
C4_FirstContact ==
  (StreakUpdated /\ ~HadRecord)
  => \E r \in streaks :
       /\ PairRows(streaks, last.sender, last.recipient) = {r}
       /\ r.count = 1 /\ r.last_snap_at = now
       /\ FlagOf(r, last.sender) /\ ~FlagOf(r, last.recipient)
       /\ ~r.at_risk

C4_Witness ==
  StreakUpdated /\ ~HadRecord /\ last.sender > last.recipient /\ now > 0

(* C5: break on send after a long gap.  A send strictly more than 48 hours *)
(* after last_snap_at takes the reset branch and leaves count 1,           *)
(* last_snap_at = now, the sender's flag true, the other flag false and    *)
(* at_risk false, whatever the row held; a send at 48 hours or less never  *)
(* takes the reset branch.                                                 *)
C5_BreakOnSend ==
  (StreakUpdated /\ HadRecord)
  => IF Age(Pre) > BreakHours * MinutesPerHour
       THEN /\ last.branch = "reset"
            /\ Post.count = 1 /\ Post.last_snap_at = now
            /\ FlagOf(Post, last.sender) /\ ~FlagOf(Post, last.recipient)
            /\ ~Post.at_risk
       ELSE last.branch # "reset"

C5_Witness ==
  /\ StreakUpdated /\ HadRecord
  /\ Age(Pre) > BreakHours * MinutesPerHour
  /\ Pre.count >= 2 /\ Pre.at_risk /\ FlagOf(Pre, last.recipient)

(* C6: sweep at-risk marking.  A run that reaches the at-risk step marks a *)
(* row exactly when the row has at_risk = false and last_snap_at strictly  *)
(* more than 20 hours old; the marking changes nothing but at_risk (a row  *)
(* marked and not reset by the same run keeps count, flags and             *)
(* last_snap_at), and rows neither marked nor reset are untouched.         *)
C6_SweepAtRisk ==
  (Swept /\ Did("at_risk"))
  => \A r \in last.before :
       /\ r.id \in last.marked
            <=> (~r.at_risk /\ Age(r) > RiskHours * MinutesPerHour)
       /\ r.id \notin last.reset
            => IF r.id \in last.marked
                 THEN [r EXCEPT !.at_risk = TRUE] \in streaks
                 ELSE r \in streaks

C6_Witness ==
  /\ Swept /\ Did("at_risk")
  /\ \E r \in last.before :
       /\ r.id \in last.marked /\ r.id \notin last.reset
       /\ Age(r) = (RiskHours + 1) * MinutesPerHour
       /\ r.count >= 2

(* C7: sweep reset.  After a run that completes the reset step, every row  *)
(* whose last_snap_at is strictly more than 48 hours old has count 1, both *)
(* flags false and at_risk false, whether or not at_risk was set before;   *)
(* rows at most 48 hours old are not reset (count and flags as before).    *)
C7_SweepReset ==
  (Swept /\ Did("reset"))
  => \A r \in last.before :
       \E q \in streaks :
         /\ q.id = r.id /\ q.last_snap_at = r.last_snap_at
         /\ IF Age(r) > BreakHours * MinutesPerHour
              THEN /\ q.count = 1 /\ ~q.bot_a_sent /\ ~q.bot_b_sent
                   /\ ~q.at_risk
              ELSE /\ r.id \notin last.reset
                   /\ q.count = r.count
                   /\ q.bot_a_sent = r.bot_a_sent
                   /\ q.bot_b_sent = r.bot_b_sent

C7_Witness ==
  /\ Swept /\ Did("reset")
  /\ \E r \in last.before :
       /\ Age(r) > BreakHours * MinutesPerHour
       /\ r.count >= 2 /\ r.at_risk /\ (r.bot_a_sent \/ r.bot_b_sent)

(* C8: expiration idempotence.  When a run follows a completed run with    *)
(* nothing in between, it deletes no row and writes to no streak row (no   *)
(* at-risk marking, no reset).                                             *)
C8_SecondRunIdle ==
  (Swept /\ last.second)
  => last.deleted = 0 /\ last.marked = {} /\ last.reset = {}

(* C9: a failure of the streak update never fails or undoes the send.      *)
(* When _update_streak raises in post_snap or post_snap_file, the snap row *)
(* inserted before it is in the table, and the send answers 201 unless the *)
(* enrichment of the response, a later call, fails on its own.             *)
C9_StreakFailureSwallowed ==
  (IsSend /\ last.streak = "raised")
  => /\ \E r \in snaps : /\ r.id = last.snap_id
                         /\ r.sender_id = last.sender
                         /\ r.recipient_id = last.recipient
     /\ "enrich" \notin last.faults => last.status = "201"

C9_Witness ==
  /\ last.op = "post_snap_file" /\ last.streak = "raised"
  /\ last.status = "201"
  /\ last.branch = "advance"

(* C10: within one run, a failure in one sub-step does not abort the       *)
(* remaining sub-steps: every later sub-step is still executed.            *)
SubStep(f) ==
  CASE f \in {"snaps_select", "snaps_delete"} -> 1
    [] f = "stories_delete" -> 2
    [] f = "messages_delete" -> 3
    [] f = "at_risk_update" -> 4
    [] OTHER -> 5

SubStepNames == <<"snaps", "stories", "messages", "at_risk", "reset">>

C10_LaterStepsRun ==
  (Swept /\ last.failed # "none")
  => \A i \in 1..5 : i > SubStep(last.failed) => Did(SubStepNames[i])

----------------------------------------------------------------------------
Next ==
  \/ Tick
  \/ PostSnap
  \/ PostSnapFile
  \/ DeleteSnap
  \/ RunCleanup

Spec == Init /\ [][Next]_vars

----------------------------------------------------------------------------
(* The sweeper over all three content tables: public and direct snaps,     *)
(* stories and messages, with no failing call outside the sweeper.         *)

PostAnySnap ==
  \E bot \in Bots, rcpt \in {Null} \cup Bots, upload \in BOOLEAN,
     ttl \in TTLs :
    /\ rcpt # bot
    /\ SendSnap("post_snap", bot, rcpt, upload, ttl, {})

NextContent ==
  \/ Tick
  \/ PostAnySnap
  \/ CreateStory
  \/ SendMessage
  \/ RunCleanup

SpecContent == Init /\ [][NextContent]_vars
----------------------------------------------------------------------------
(* One bot sending alone: bot 1 posts direct snaps to itself and to bot 2. *)
(* post_snap resolves recipient_username to a profile and does not compare *)
(* it with the caller, so the streak engine is called with (bot, bot) when *)
(* a bot names itself.                                                     *)

SoloBot == 1

PostSolo ==
  \E rcpt \in Bots, ttl \in TTLs :
    /\ SoloBot \in Bots
    /\ SendSnap("post_snap", SoloBot, rcpt, FALSE, ttl, {})

NextSolo ==
  \/ Tick
  \/ PostSolo
  \/ DeleteSnap
  \/ RunCleanup

SpecSolo == Init /\ [][NextSolo]_vars

\* the rows the run's select of broken streaks returned
BrokenBefore == {r.id : r \in {x \in last.before : Age(x) > BreakHours * MinutesPerHour}}

(* C11: within the reset step of one run, a failure while resetting one    *)
(* row does not keep the other rows selected as broken from being reset:   *)
(* when the per-row update raises, at most one selected row (the one whose *)
(* update raised) is left without its reset.                               *)
C11_OtherRowsReset ==
  (Swept /\ last.failed = "reset_update")
  => Cardinality(BrokenBefore \ last.reset) <= 1

(* C19: every streak row relates two distinct bots and its count advances  *)
(* only through reciprocity: a direct snap whose recipient is the sender   *)
(* neither creates a streak row nor raises a count, and while one bot      *)
(* alone is sending no count rises above 1.                                *)
C19_GenuineReciprocity ==
  /\ \A r \in streaks : r.bot_a_id # r.bot_b_id
  /\ \A r \in streaks : r.count <= 1
  /\ (IsSend /\ last.sender = last.recipient)
       => {<<r.id, r.count>> : r \in streaks}
            = {<<r.id, r.count>> : r \in last.before}

(* C12: in the snap sweep, a failure of the storage remove call does not   *)
(* keep the expired snap rows from being deleted in the same run, and      *)
(* expired snaps whose image URL lacks the storage marker are deleted as   *)
(* rows with no storage deletion attempted for them.  For every run that   *)
(* selects the expired snaps and whose row delete does not itself raise:   *)
(* exactly the expired rows are gone afterwards, whatever the remove call  *)
(* did; only objects of expired rows are removed; and with no expired row  *)
(* in own storage, no remove is attempted and the bucket is untouched.     *)
C12_PurgeFailureKeepsRowDeletion ==
  [][(Swept' /\ last'.failed \notin {"snaps_select", "snaps_delete"})
     => /\ snaps' = snaps \ ExpiredRows(snaps, now)
        /\ (storage \ storage')
             \subseteq {r.image_url : r \in ExpiredRows(snaps, now)}
        /\ (\A r \in ExpiredRows(snaps, now) : r.image_url = 0)
             => (last'.purge = "none" /\ storage' = storage)]_vars

\* a run whose remove call failed and that deleted the row all the same
C12_Witness ==
  /\ Swept /\ Did("snaps")
  /\ last.purge = "failed" /\ last.deleted > 0
  /\ snaps = {} /\ storage # {}

\* a run that deleted an externally hosted snap and attempted no removal
C12_ExternalDeleted ==
  /\ Swept /\ Did("snaps")
  /\ last.purge = "none" /\ last.deleted > 0 /\ storage = {}

(* C13: deletion of a snap row is paired with deletion of its storage      *)
(* object: no step (sweep run or manual delete) removes a snap row that    *)
(* references an object of own storage and leaves that object in the       *)
(* bucket.                                                                 *)
C13_RowAndObjectTogether ==
  [][\A r \in snaps \ snaps' :
       r.image_url # 0 => r.image_url \notin storage']_vars

(* C14: for a streak row whose last_snap_at is more than 48 hours old, the *)
(* reset written by a send (of either bot of the pair) and the reset       *)
(* written by the sweeper give the same row: same count, sent flags,       *)
(* at_risk and last_snap_at.                                               *)
C14_SameReset ==
  \A r \in streaks :
    Broken(now, r.last_snap_at)
    => \A bot \in {r.bot_a_id, r.bot_b_id} :
         UpdateById({r}, r.id, ResetUpdates(r.bot_a_id, r.bot_b_id, bot, now))
           = ResetRows({r}, {r.id})

----------------------------------------------------------------------------
(* Callers supplying any expires_in_hours: public snaps by JSON body and   *)
(* by multipart upload, and messages.                                      *)

PostSnapAnyTTL ==
  \E bot \in Bots, ttl \in AnyTTLs :
    /\ bot \in Bots
    /\ SendSnap("post_snap", bot, Null, FALSE, ttl, {})

PostSnapFileAnyTTL ==
  \E bot \in Bots, ttl \in AnyTTLs :
    /\ bot \in Bots
    /\ SendSnap("post_snap_file", bot, Null, TRUE, ttl, {})

SendMessageAnyTTL ==
  \E bot \in Bots, rcpt \in Bots, ttl \in AnyTTLs :
    /\ rcpt # bot
    /\ SendMsg(bot, rcpt, ttl)

NextTTL ==
  \/ Tick
  \/ PostSnapAnyTTL
  \/ PostSnapFileAnyTTL
  \/ SendMessageAnyTTL
  \/ DeleteSnap
  \/ RunCleanup

SpecTTL == Init /\ [][NextTTL]_vars

\* expires_at of row r lies between 1 hour and 168 hours from now
WithinTTLRange(r) ==
  /\ r.expires_at - now >= TTLMin * MinutesPerHour
  /\ r.expires_at - now <= TTLMax * MinutesPerHour

(* C15: every row created by post_snap, post_snap_file or send_message has *)
(* expires_at equal to its creation time plus a TTL between 1 hour and 168 *)
(* hours, whatever expires_in_hours the caller supplies: right after a     *)
(* call that stored a row, the row's expires_at is within that range of    *)
(* the current instant, and a rejected call (422) stores nothing.          *)
C15_TTLWithinRange ==
  /\ (IsSend /\ last.snap_id # 0)
       => \A r \in snaps : r.id = last.snap_id => WithinTTLRange(r)
  /\ (last.op = "send_message" /\ last.snap_id # 0)
       => \A r \in messages : r.id = last.snap_id => WithinTTLRange(r)
  /\ (last.status = "422") => last.snap_id = 0

----------------------------------------------------------------------------
(* C16: once a streak row exists for a pair it exists ever after, and its  *)
(* count is at least 1 after any sequence of sends and sweep runs: no step *)
(* removes a streak row or changes its pair, and no step leaves a count    *)
(* below 1.                                                                *)
C16_NeverDeletedCountPositive ==
  [][/\ \A r \in streaks :
          \E q \in streaks' : /\ q.id = r.id
                              /\ q.bot_a_id = r.bot_a_id
                              /\ q.bot_b_id = r.bot_b_id
     /\ \A q \in streaks' : q.count >= 1]_vars

\* the sweeper has reset a row that had advanced, and the row is still there
C16_Witness ==
  /\ Swept /\ last.reset # {}
  /\ \E r \in last.before :
       /\ r.id \in last.reset /\ r.count >= 2
       /\ \E q \in streaks : q.id = r.id /\ q.count = 1

(* C17: a streak row exists for the pair {A,B} if and only if at least one *)
(* direct snap between A and B has been sent successfully.  Rows are never *)
(* removed, so this is: a pair without a row gets its row in exactly the   *)
(* steps that are a successful (201) direct send between the two.          *)
C17_RecordIffSent ==
  [][\A x, y \in Bots :
       PairRows(streaks, x, y) = {}
       => (PairRows(streaks', x, y) # {}
             <=> /\ IsSend' /\ last'.status = "201"
                 /\ {last'.sender, last'.recipient} = {x, y})]_vars

(* C18: at_risk is set to true only by the sweeper, never by a send: after *)
(* every send whose streak update completed (first contact, flag update,   *)
(* mutual advance or reset) the pair's row has at_risk = false, also when  *)
(* it was true before; and a row's at_risk turns true, or a row appears    *)
(* with at_risk true, only in a sweep run.                                 *)
C18_AtRiskOnlyBySweeper ==
  [][/\ StreakUpdated'
          => /\ PairRows(streaks', last'.sender, last'.recipient) # {}
             /\ \A q \in PairRows(streaks', last'.sender, last'.recipient) :
                  ~q.at_risk
     /\ \A q \in streaks' :
          (q.at_risk /\ \A r \in streaks : r.id = q.id => ~r.at_risk)
          => Swept']_vars

\* a one-sided flag update on a row the sweeper had marked
C18_Witness ==
  /\ StreakUpdated /\ HadRecord
  /\ last.branch = "update"
  /\ Pre.at_risk /\ ~Post.at_risk
  /\ Post.count = Pre.count

----------------------------------------------------------------------------
(* The process lifecycle: lifespan runs one sweep at startup inside a      *)
(* try/except, then adds the 60-second interval job and starts the         *)
(* scheduler; requests are served until shutdown stops the scheduler.  The *)
(* database outlives the process, so a later start finds what the earlier  *)
(* one left.  An exception raised by the job is logged by the scheduler's  *)
(* executor and the interval job stays scheduled.                          *)

\* Faulty variant of StartupOutcome: no try/except around the startup run.
StartupOutcomeUncaught(f) ==
  IF f = "none"
    THEN [phase |-> "serving", startup |-> "ok", job |-> TRUE, runs |-> 0]
    ELSE [phase |-> "stopped", startup |-> "failed", job |-> FALSE, runs |-> 0]

\* the process once lifespan reaches its yield; f is the call of the startup
\* run that raised
StartupOutcome(f) ==
  [phase |-> "serving", startup |-> IF f = "none" THEN "ok" ELSE "failed",
   job |-> TRUE, runs |-> 0]

Startup ==
  \E purgeFails \in BOOLEAN, f \in CleanupFaults,
     done \in SUBSET {r.id : r \in streaks} :
       /\ proc.phase = "starting"
       /\ Cleanup(purgeFails, f, done)
       /\ proc' = StartupOutcome(f)
       /\ UNCHANGED workers

\* the interval job fires
PeriodicCleanup ==
  \E purgeFails \in BOOLEAN, f \in CleanupFaults,
     done \in SUBSET {r.id : r \in streaks} :
       /\ proc.phase = "serving" /\ proc.job
       /\ Cleanup(purgeFails, f, done)
       /\ proc' = [proc EXCEPT !.runs = IF @ = 1 THEN 2 ELSE 1]
       /\ UNCHANGED workers

\* a request is served: a public snap, by URL or with an uploaded image
ServeSnap ==
  \E bot \in Bots, upload \in BOOLEAN, ttl \in TTLs :
    /\ proc.phase = "serving"
    /\ SendSnap("post_snap", bot, Null, upload, ttl, {})

\* scheduler.shutdown(wait=False)
Shutdown ==
  /\ proc.phase = "serving"
  /\ proc' = [proc EXCEPT !.phase = "stopped", !.job = FALSE]
  /\ last' = [NoLast EXCEPT !.op = "shutdown"]
  /\ UNCHANGED <<now, snaps, storage, stories, messages, streaks, workers>>

\* the server is started again
ProcessStart ==
  /\ proc.phase = "stopped"
  /\ proc' = Starting
  /\ last' = [NoLast EXCEPT !.op = "start"]
  /\ UNCHANGED <<now, snaps, storage, stories, messages, streaks, workers>>

InitLifespan ==
  /\ now = 0
  /\ snaps = {}
  /\ storage = {}
  /\ stories = {}
  /\ messages = {}
  /\ streaks = {}
  /\ last = NoLast
  /\ proc = Starting
  /\ workers = OneWorker

NextLifespan ==
  \/ Tick
  \/ Startup
  \/ PeriodicCleanup
  \/ ServeSnap
  \/ Shutdown
  \/ ProcessStart

\* lifespan runs on to its yield, and the interval trigger fires the job
\* again and again while the scheduler is running
SpecLifespan ==
  /\ InitLifespan /\ [][NextLifespan]_vars
  /\ WF_vars(Startup) /\ WF_vars(PeriodicCleanup)

(* C20: at process startup one sweep run is executed before any periodic   *)
(* run, the periodic job is then scheduled and keeps firing until          *)
(* shutdown, also when the startup run fails.  No periodic run has         *)
(* happened while the startup run is still to come; the process leaves     *)
(* startup only by a sweep run, and then serves with the job scheduled,    *)
(* whether or not that run raised; a starting process gets to serve; and   *)
(* while it serves, each firing of the job is followed by another unless   *)
(* the process is shut down.                                               *)
C20_StartupThenPeriodic ==
  /\ [](proc.runs > 0 => proc.startup # "none")
  /\ [](proc.phase = "serving" => proc.job /\ proc.startup # "none")
  /\ [][(proc.phase = "starting" /\ proc'.phase # "starting")
         => (Swept' /\ proc'.phase = "serving" /\ proc'.job)]_vars
  /\ (proc.phase = "starting") ~> (proc.phase = "serving")
  /\ (proc.phase = "serving" /\ proc.runs = 0)
       ~> (proc.phase = "stopped" \/ proc.runs = 1)
  /\ (proc.phase = "serving" /\ proc.runs = 1)
       ~> (proc.phase = "stopped" \/ proc.runs = 2)
  /\ (proc.phase = "serving" /\ proc.runs = 2)
       ~> (proc.phase = "stopped" \/ proc.runs = 1)

\* the job has fired twice after a startup run that raised
C20_Witness ==
  /\ proc.phase = "serving" /\ proc.startup = "failed"
  /\ proc.runs = 2 /\ Swept

----------------------------------------------------------------------------
(* C27: after any sequence of whole (non-interleaved) sends and sweep runs *)
(* on a pair of two distinct bots, the two sent flags of the pair's row    *)
(* are never both true.                                                    *)
C27_NeverBothSent ==
  \A r \in streaks :
    r.bot_a_id # r.bot_b_id => ~(r.bot_a_sent /\ r.bot_b_sent)

\* a send that set its flag on a row that had advanced, the other flag clear
C27_Witness ==
  /\ StreakUpdated /\ HadRecord
  /\ last.branch = "update" /\ Pre.count >= 2
  /\ ~FlagOf(Pre, last.sender) /\ ~FlagOf(Pre, last.recipient)
  /\ FlagOf(Post, last.sender) /\ ~FlagOf(Post, last.recipient)

\* the row that _update_streak(sender, other) at the current instant leaves
\* of row r
AfterSend(r, sender) ==
  LET other == IF sender = r.bot_a_id THEN r.bot_b_id ELSE r.bot_a_id
  IN  UpdateStreak({r}, sender, other, now, {}).table

\* row r after one sweep run at the current instant
AfterSweep(r) ==
  ResetRows(MarkAtRisk({r}, now),
            {x.id : x \in {y \in MarkAtRisk({r}, now) : BrokenSelected(y, now)}})

(* C28: for a streak row idle for more than 48 hours, a send at time t     *)
(* yields the same row (count 1, the sender's flag true, the other flag    *)
(* false, at_risk false, last_snap_at = t) whether or not one or more      *)
(* sweeper resets were applied to the row before the send.                 *)
C28_SendAfterSweepSame ==
  \A r \in streaks :
    (Age(r) > BreakHours * MinutesPerHour /\ r.bot_a_id # r.bot_b_id)
    => \A sender \in {r.bot_a_id, r.bot_b_id} :
         LET res == AfterSend(r, sender)
         IN  /\ \A s1 \in AfterSweep(r) : AfterSend(s1, sender) = res
             /\ \A s1 \in AfterSweep(r) :
                  \A s2 \in AfterSweep(s1) : AfterSend(s2, sender) = res
             /\ \A q \in res :
                  /\ q.count = 1 /\ q.last_snap_at = now /\ ~q.at_risk
                  /\ FlagOf(q, sender)
                  /\ ~(IF sender = q.bot_a_id THEN q.bot_b_sent
                                              ELSE q.bot_a_sent)

\* a send on a row the sweeper had reset: count 1 and both flags clear is a
\* row only the sweeper's reset leaves
C28_Witness ==
  /\ StreakUpdated /\ HadRecord
  /\ last.branch = "reset"
  /\ Pre.count = 1 /\ ~Pre.bot_a_sent /\ ~Pre.bot_b_sent /\ ~Pre.at_risk
  /\ Post.last_snap_at = now /\ FlagOf(Post, last.sender)

----------------------------------------------------------------------------
(* One bot filling all four tables for the sweeper: direct snaps to its    *)
(* peer (image uploaded), stories over its own snaps, messages to the      *)
(* peer; any store call of a sweep run may raise.                          *)

Peer == 2

PostToPeer ==
  \E ttl \in TTLs :
    /\ Peer # SoloBot
    /\ SendSnap("post_snap", SoloBot, Peer, TRUE, ttl, {})

MessagePeer ==
  \E ttl \in TTLs :
    /\ Cardinality(messages) < MaxMessages
    /\ SendMsg(SoloBot, Peer, ttl)

NextOrder ==
  \/ Tick
  \/ PostToPeer
  \/ CreateStory
  \/ MessagePeer
  \/ RunCleanup

SpecOrder == Init /\ [][NextOrder]_vars

\* no row of table T is expired at the current instant
Clean(T) == ExpiredRows(T, now) = {}

\* s is an initial part of t
IsPrefix(s, t) ==
  /\ Len(s) <= Len(t)
  /\ \A i \in 1..Len(s) : s[i] = t[i]

(* C25: within one run the sub-steps execute in the order snap sweep,      *)
(* story sweep, message sweep, at-risk marking, streak reset; inside the   *)
(* snap sweep the storage deletion precedes the deletion of the rows; and  *)
(* at-risk marking precedes the reset.  Seen at the point where a run      *)
(* stopped: the sub-steps completed are an initial part of that order, and *)
(* the work of every earlier sub-step is done while that of the failing    *)
(* one and of the later ones is not.                                       *)
C25_FixedOrder ==
  Swept =>
    /\ IsPrefix(last.steps, SubStepNames)
    /\ last.failed = "snaps_delete"
         => /\ last.deleted = 0
            /\ \A r \in ExpiredRows(snaps, now) :
                 r.image_url # 0
                 => /\ last.purge \in {"ok", "failed"}
                    /\ last.purge = "ok" => r.image_url \notin storage
    /\ last.failed = "stories_delete"
         => Clean(snaps) /\ last.marked = {} /\ last.reset = {}
    /\ last.failed = "messages_delete"
         => Clean(snaps) /\ Clean(stories) /\ last.marked = {} /\ last.reset = {}
    /\ last.failed = "at_risk_update"
         => /\ Clean(snaps) /\ Clean(stories) /\ Clean(messages)
            /\ last.marked = {} /\ last.reset = {} /\ streaks = last.before
    /\ last.failed \in {"broken_select", "reset_update", "none"}
         => /\ Clean(snaps) /\ Clean(stories) /\ Clean(messages)
            /\ \A r \in streaks :
                 (~r.at_risk /\ Age(r) > RiskHours * MinutesPerHour)
                 => r.id \in last.reset
    /\ last.failed = "broken_select" => last.reset = {}

\* a run stopped by the story delete after it had swept an uploaded snap,
\* with an expired story and an expired message still waiting
C25_Witness ==
  /\ Swept /\ last.failed = "stories_delete"
  /\ last.deleted > 0 /\ last.purge = "ok"
  /\ ~Clean(stories) /\ ~Clean(messages)

----------------------------------------------------------------------------
(* Messages sent, read and swept. *)

NextRead ==
  \/ Tick
  \/ MessagePeer
  \/ MarkRead
  \/ Inbox
  \/ RunCleanup

SpecRead == Init /\ [][NextRead]_vars

\* the step is a read by its recipient that reaches message r
ReadsRow(r) ==
  \/ /\ last'.op = "mark_read" /\ last'.status = "200"
     /\ last'.snap_id = r.id
  \/ /\ last'.op = "inbox" /\ last'.sender = r.recipient_id
     /\ r.expires_at > now

C26_Shortened ==
  /\ last.op = "inbox"
  /\ \E r \in messages :
       r.read_at = now /\ r.expires_at = now + ReadMinutes

----------------------------------------------------------------------------
(* The sweeper kept running: public snaps (image by URL), stories and      *)
(* messages are created, the clock moves on, and sweep runs may stop at    *)
(* any raising store call.  Store errors are transient: a run  *)
(* in which no call raises keeps coming.                                   *)

PostPublic ==
  \E ttl \in TTLs :
    /\ SoloBot \in Bots
    /\ SendSnap("post_snap", SoloBot, Null, FALSE, ttl, {})

\* a sweep run in which no store call raises
CompleteRun ==
  \E purgeFails \in BOOLEAN :
    /\ Cleanup(purgeFails, "none", {})
    /\ UNCHANGED <<proc, workers>>

NextSweep ==
  \/ Tick
  \/ PostPublic
  \/ CreateStory
  \/ MessagePeer
  \/ RunCleanup

SpecSweep == Init /\ [][NextSweep]_vars /\ WF_vars(CompleteRun)

AllClean == Clean(snaps) /\ Clean(stories) /\ Clean(messages)

(* C22: every snap, story and message row whose expires_at has passed is   *)
(* eventually deleted by the sweeper, provided runs keep being scheduled   *)
(* and store errors are transient: nothing moves an expiry later, so a row *)
(* a failed run left behind is still expired for a later run, and         *)
(* whenever some table holds expired rows a moment comes when none does.   *)
C22_ExpiredEventuallyDeleted ==
  /\ ~AllClean ~> AllClean
  /\ [][\A r \in ExpiredRows(snaps, now) \cup ExpiredRows(stories, now)
                  \cup ExpiredRows(messages, now) :
          \A q \in snaps' \cup stories' \cup messages' :
            q.id = r.id /\ DOMAIN q = DOMAIN r => q.expires_at < now']_vars

\* a run stopped by an error with expired rows of all three tables left
C22_Witness ==
  /\ Swept /\ last.failed = "snaps_delete"
  /\ ~Clean(snaps) /\ ~Clean(stories) /\ ~Clean(messages)

----------------------------------------------------------------------------
(* Requests that overlap.  uvicorn.run starts settings.workers worker      *)
(* processes unless settings.debug is set; they share the store and share  *)
(* nothing else.  While one worker's request waits on a store call, the    *)
(* requests of the other workers go on, so a handler is followed store     *)
(* call by store call: _update_streak is a select and then one write.      *)

\* the values settings.workers is given
WorkerSettings == {1, 2}

\* workers=1 if settings.debug else settings.workers
WorkerCount(debug, configured) == IF debug THEN 1 ELSE configured

ServingWorkers(n) == [w \in 1..n |-> IdleWorker]

\* insert into streaks: the table takes every row it is given
InsertStreak(S, row) == S \cup {row}

\* Faulty variant of WriteUpdates: an advance skips a day.
WriteUpdatesSkip(streak, a, b, bot_a, t) ==
  IF Broken(t, streak.last_snap_at)
    THEN ResetUpdates(a, b, bot_a, t)
    ELSE [f \in DOMAIN LiveUpdates(streak, a, b, bot_a, t) |->
            IF f = "count" THEN streak.count + 2
            ELSE LiveUpdates(streak, a, b, bot_a, t)[f]]

\* the update _update_streak writes to the row it read
WriteUpdates(streak, a, b, bot_a, t) ==
  IF Broken(t, streak.last_snap_at)
    THEN ResetUpdates(a, b, bot_a, t)
    ELSE LiveUpdates(streak, a, b, bot_a, t)

InitRace ==
  /\ now = 0
  /\ snaps = {}
  /\ storage = {}
  /\ stories = {}
  /\ messages = {}
  /\ streaks = {}
  /\ last = NoLast
  /\ proc = Serving
  /\ \E debug \in BOOLEAN, configured \in WorkerSettings :
       workers = ServingWorkers(WorkerCount(debug, configured))

\* the clock moves on while requests overlap: by an hour at most, far from
\* the 48 hours that break a streak
TickWithinHour ==
  /\ Tick
  /\ now' <= MinutesPerHour

\* a send reaches _update_streak and reads the pair's rows
StreakLookup ==
  \E w \in DOMAIN workers, bot_a \in Bots, bot_b \in Bots :
    /\ bot_a # bot_b
    /\ workers[w].call.op = "none"
    /\ workers' =
         [workers EXCEPT
            ![w].call = [op |-> "update_streak", bot |-> bot_a,
                         other |-> bot_b,
                         found |-> Lookup(streaks,
                                          CanonicalPair(bot_a, bot_b)[1],
                                          CanonicalPair(bot_a, bot_b)[2])]]
    /\ last' = [NoLast EXCEPT !.op = "streak_lookup"]
    /\ UNCHANGED <<now, snaps, storage, stories, messages, streaks, proc>>

\* the send writes from what it read: an insert when it read no row, the
\* update of res.data[0] by id otherwise (the select has no order, so any
\* row read may come first)
StreakWrite ==
  \E w \in DOMAIN workers :
    LET c == workers[w].call
        a == CanonicalPair(c.bot, c.other)[1]
        b == CanonicalPair(c.bot, c.other)[2]
    IN  /\ c.op = "update_streak"
        /\ IF c.found = {}
             THEN streaks' =
                    InsertStreak(streaks, NewStreak(streaks, a, b, c.bot, now))
             ELSE \E streak \in c.found :
                    streaks' = UpdateById(streaks, streak.id,
                                 WriteUpdates(streak, a, b, c.bot, now))
        /\ \A r \in streaks' : r.count <= MaxCount
        /\ workers' = [workers EXCEPT ![w].call = NoCall]
        /\ last' = [NoLast EXCEPT !.op = "streak_write", !.streak = "ok"]
        /\ UNCHANGED <<now, snaps, storage, stories, messages, proc>>

NextRace ==
  \/ TickWithinHour
  \/ StreakLookup
  \/ StreakWrite

SpecRace == InitRace /\ [][NextRace]_vars

(* C23: when two _update_streak calls for the same pair overlap, the       *)
(* streak table still holds at most one record for the pair in every       *)
(* reachable state, also when both calls are the pair's first contact.     *)
C23_OneRecordUnderRace ==
  \A x \in Bots, y \in Bots : Cardinality(PairRows(streaks, x, y)) <= 1

\* the call of worker w ends in this step
Completes(w) ==
  /\ w \in DOMAIN workers
  /\ workers[w].call.op = "update_streak"
  /\ workers'[w].call.op = "none"

(* C29: under any interleaving of overlapping _update_streak calls on the  *)
(* same pair, with every send within 48 hours of the one before and no     *)
(* sweeper reset, the streak count never decreases and each completed call *)
(* raises it by at most 1.                                                 *)
C29_CountMonotone ==
  [][\A r \in streaks : \A q \in streaks' :
       q.id = r.id => r.count <= q.count /\ q.count <= r.count + 1]_vars

(* C29, amended: a completed call writes from what it read.  It inserts a  *)
(* record with count 1 when it read none; otherwise it touches only the    *)
(* record it read, whose count it leaves alone when the lookup did not     *)
(* show the other side's flag and sets to the count it read plus 1 when    *)
(* the lookup did; the count never falls below 1.                          *)
C29_CountFromRead ==
  [][\A w \in DOMAIN workers : Completes(w) =>
       LET c == workers[w].call
           a == CanonicalPair(c.bot, c.other)[1]
           b == CanonicalPair(c.bot, c.other)[2]
       IN  IF c.found = {}
             THEN \E q \in streaks' :
                    /\ q.count = 1
                    /\ streaks' = streaks \cup {q}
             ELSE \E f \in c.found :
                    /\ \A r \in streaks : r.id # f.id => r \in streaks'
                    /\ \A q \in streaks' : q.id = f.id =>
                         /\ q.count >= 1
                         /\ BothSent(f, a, b, c.bot) => q.count = f.count + 1
                         /\ ~BothSent(f, a, b, c.bot) =>
                              \E r \in streaks : r.id = f.id /\ q.count = r.count]_vars

\* a call has completed that wrote a count lower than the one in the table,
\* which the lookup of a call still in flight had read
C29_Witness ==
  /\ last.op = "streak_write"
  /\ \E w \in DOMAIN workers : \E f \in workers[w].call.found :
       \E q \in streaks : q.id = f.id /\ q.count < f.count

----------------------------------------------------------------------------
(* Sweep runs that overlap requests and each other.  Every worker process  *)
(* runs lifespan: one sweep run before it serves, then its own scheduler,  *)
(* whose thread runs the interval job beside the worker's requests.  The   *)
(* scheduler holds back a firing of the job while the job's earlier        *)
(* instance is still running in the same process.  A run is followed from  *)
(* its selection of the broken streaks through one update per selected id. *)

StartingWorkers(n) ==
  [w \in 1..n |-> [call |-> NoCall,
                   sweep |-> [phase |-> "starting", broken |-> {}]]]

\* whether worker w is inside run_cleanup
Running(w) == workers[w].sweep.phase \in {"startup_run", "job_run"}

\* whether worker w has reached the yield of lifespan
Yielded(w) == workers[w].sweep.phase \in {"serving", "job_run"}

InitWorkers ==
  /\ now = 0
  /\ snaps = {}
  /\ storage = {}
  /\ stories = {}
  /\ messages = {}
  /\ streaks = {}
  /\ last = NoLast
  /\ proc = Serving
  /\ \E debug \in BOOLEAN, configured \in WorkerSettings :
       workers = StartingWorkers(WorkerCount(debug, configured))

\* run_cleanup from its start to the select of the broken streaks: the
\* expired rows and their storage objects go, the at-risk flags are set and
\* the ids of the broken streaks are read
SweepBegin ==
  \E w \in DOMAIN workers :
    LET expired == ExpiredRows(snaps, now)
        sk1 == MarkAtRisk(streaks, now)
    IN  /\ workers[w].sweep.phase \in {"starting", "serving"}
        /\ storage' = PurgeStorageFiles(storage, expired, FALSE)
        /\ snaps' = snaps \ expired
        /\ stories' = stories \ ExpiredRows(stories, now)
        /\ messages' = messages \ ExpiredRows(messages, now)
        /\ streaks' = sk1
        /\ workers' =
             [workers EXCEPT
                ![w].sweep =
                  [phase |-> IF workers[w].sweep.phase = "starting"
                               THEN "startup_run" ELSE "job_run",
                   broken |-> {r.id : r \in {x \in sk1 : BrokenSelected(x, now)}}]]
        /\ last' = [NoLast EXCEPT !.op = "sweep_begin"]
        /\ UNCHANGED <<now, proc>>

\* one turn of the loop over broken.data: the reset is written to the row
\* that carries the id
SweepReset ==
  \E w \in DOMAIN workers : \E id \in workers[w].sweep.broken :
    /\ Running(w)
    /\ streaks' = ResetRows(streaks, {id})
    /\ workers' = [workers EXCEPT ![w].sweep.broken = @ \ {id}]
    /\ last' = [NoLast EXCEPT !.op = "sweep_reset", !.reset = {id}]
    /\ UNCHANGED <<now, snaps, storage, stories, messages, proc>>

\* run_cleanup returns; after the startup run lifespan starts the scheduler
\* and yields
SweepEnd ==
  \E w \in DOMAIN workers :
    /\ Running(w)
    /\ workers[w].sweep.broken = {}
    /\ workers' = [workers EXCEPT ![w].sweep.phase = "serving"]
    /\ last' = [NoLast EXCEPT !.op = "sweep_end"]
    /\ UNCHANGED <<now, snaps, storage, stories, messages, streaks, proc>>

\* a worker that serves takes a direct snap from bot 1 to bot 2
WorkerPost ==
  \E w \in DOMAIN workers, ttl \in TTLs :
    /\ Yielded(w)
    /\ SendSnap("post_snap", SoloBot, Peer, FALSE, ttl, {})

NextWorkers ==
  \/ Tick
  \/ SweepBegin
  \/ SweepReset
  \/ SweepEnd
  \/ WorkerPost

SpecWorkers == InitWorkers /\ [][NextWorkers]_vars

(* C21: at any time at most one sweep run is executing; a periodic run     *)
(* never starts while the startup run or an earlier periodic run is still  *)
(* in progress.                                                            *)
C21_OneSweepAtATime ==
  Cardinality({w \in DOMAIN workers : Running(w)}) <= 1

(* C24: when a sweep run interleaves with _update_streak on one streak     *)
(* record, the sweeper's reset is written only to a record whose           *)
(* last_snap_at is more than 48 hours old at the moment of the write: a    *)
(* send that lands between the selection of the broken streaks and the     *)
(* per-row update is not overwritten.                                      *)
C24_ResetOnlyBroken ==
  [][last'.op = "sweep_reset" =>
       \A r \in streaks : r.id \in last'.reset =>
         Age(r) > BreakHours * MinutesPerHour]_vars

----------------------------------------------------------------------------
(* Viewing snaps: view_snap reads the row by id, checks expiry and access, *)
(* and then, for the recipient's first view, writes viewed_at and          *)
(* view_count and, when the snap is view_once, removes the storage object  *)
(* and deletes the row.  The snaps here are direct and not public, sent by *)
(* bot 1 to bot 2; both bots view them.  Nothing else removes a snap row   *)
(* here (no delete_snap, no sweep), so a row that is gone was consumed by  *)
(* a view.                                                                 *)

\* viewed_at of a snap nobody has viewed
Unviewed == -1

\* the row post_snap inserts, with the columns view_snap works on
ViewableRow(id, bot, recipient_id, image_url, ttl, t, view_once) ==
  [id |-> id, sender_id |-> bot, recipient_id |-> recipient_id,
   image_url |-> image_url, expires_at |-> t + ttl * MinutesPerHour,
   view_once |-> view_once, viewed_at |-> Unviewed, view_count |-> 0]

PostViewable ==
  \E w \in DOMAIN workers, view_once \in BOOLEAN, upload \in BOOLEAN,
     ttl \in TTLs :
    LET id == FreeId({r.id : r \in snaps} \cup storage, MaxSnaps)
    IN  /\ workers[w].call.op = "none"
        /\ id # 0
        /\ storage' = IF upload THEN storage \cup {id} ELSE storage
        /\ snaps' = snaps \cup
                      {ViewableRow(id, SoloBot, Peer, IF upload THEN id ELSE 0,
                                   ttl, now, view_once)}
        /\ streaks' = UpdateStreak(streaks, SoloBot, Peer, now, {}).table
        /\ last' = [NoLast EXCEPT !.op = "post_snap", !.sender = SoloBot,
                                  !.recipient = Peer, !.snap_id = id,
                                  !.status = "201", !.streak = "ok"]
        /\ UNCHANGED <<now, stories, messages, proc, workers>>

\* view_snap up to its checks: the row is read; a missing row and an
\* expired row end the request
ViewSelect ==
  \E w \in DOMAIN workers, bot \in Bots, snap_id \in 1..MaxSnaps :
    LET rows == {r \in snaps : r.id = snap_id}
        ended(st) ==
          /\ last' = [NoLast EXCEPT !.op = "view_snap", !.sender = bot,
                                    !.snap_id = snap_id, !.status = st]
          /\ UNCHANGED workers
    IN  /\ workers[w].call.op = "none"
        /\ IF rows = {} THEN ended("404")
           ELSE IF \E r \in rows : r.expires_at < now THEN ended("410")
           ELSE /\ workers' = [workers EXCEPT
                                 ![w].call = [op |-> "view_snap", bot |-> bot,
                                              other |-> snap_id, found |-> rows]]
                /\ last' = [NoLast EXCEPT !.op = "view_select"]
        /\ UNCHANGED <<now, snaps, storage, stories, messages, streaks, proc>>

\* the rest of view_snap, from the row read: the recipient's first view is
\* marked, a view_once snap is deleted with its storage object, and the
\* snap is returned
ViewReturn ==
  \E w \in DOMAIN workers : \E snap \in workers[w].call.found :
    LET c == workers[w].call
        is_recipient == snap.recipient_id = c.bot
        updates == [viewed_at |-> now, view_count |-> snap.view_count + 1]
    IN  /\ c.op = "view_snap"
        /\ IF is_recipient /\ snap.viewed_at = Unviewed
             THEN IF snap.view_once
                    THEN /\ storage' = DeleteStorageFile(storage, snap.image_url,
                                                         FALSE)
                         /\ snaps' = {r \in snaps : r.id # snap.id}
                    ELSE /\ snaps' = UpdateById(snaps, snap.id, updates)
                         /\ UNCHANGED storage
             ELSE UNCHANGED <<snaps, storage>>
        /\ workers' = [workers EXCEPT ![w].call = NoCall]
        /\ last' = [NoLast EXCEPT !.op = "view_snap", !.sender = c.bot,
                                  !.snap_id = snap.id, !.status = "200"]
        /\ UNCHANGED <<now, stories, messages, streaks, proc>>

NextView ==
  \/ Tick
  \/ PostViewable
  \/ ViewSelect
  \/ ViewReturn

SpecView == InitRace /\ [][NextView]_vars

\* worker w returns the snap it read to bot in this step
Returns(w, bot) ==
  /\ w \in DOMAIN workers
  /\ workers[w].call.op = "view_snap"
  /\ workers[w].call.bot = bot
  /\ workers'[w].call.op = "none"

(* C30: a view_once direct snap is returned to its recipient by view_snap  *)
(* at most once.  The recipient's first successful view deletes the row,   *)
(* so a view that returns the snap to the recipient finds the row still in *)
(* the table, also when two view_snap calls by the recipient overlap;      *)
(* views by the sender do not consume the snap.                            *)
C30_ViewOnceReturnedOnce ==
  [][\A w \in DOMAIN workers : \A f \in workers[w].call.found :
       f.view_once =>
         /\ Returns(w, f.recipient_id) =>
              /\ \E r \in snaps : r.id = f.id
              /\ \A q \in snaps' : q.id # f.id
         /\ Returns(w, f.sender_id) => snaps' = snaps]_vars

====
